---- MODULE Spec2Model ----
(***************************************************************************)
(* YouTube Batch Analyzer: the engine orchestrator                         *)
(* (src/youtube_comment_scraper.py: run_batch_with_engine,                 *)
(* run_engine_for_url), the API collection engine                          *)
(* (src/.github/youtube_api_scraper.py: fetch_comments_for_video,          *)
(* _safe_execute) and the DOM collection engine                            *)
(* (src/selenium_scraper.py: extract_comments_detailed;                    *)
(* src/youtube_comment_scraper.py: scrape_video_with_selenium).            *)
(*                                                                         *)
(* Spec      : one call of run_batch_with_engine.  The two engines are     *)
(*             external calls; each call is one step whose outcome         *)
(*             (a list of comments, an empty list, an exception) is chosen *)
(*             nondeterministically.  The output sink is taken to be       *)
(*             writable: open() and writerow() on output_file succeed.     *)
(* SpecFetch : calls of fetch_comments_for_video over a fixed paged        *)
(*             source, with the checkpoint file persisting between calls.  *)
(*             A page request is one step; its outcome is that of          *)
(*             _safe_execute as a whole.                                   *)
(* SpecBackoff : one call of _safe_execute, one step per attempt; what the *)
(*             request does at each attempt is chosen nondeterministically.*)
(* SpecDom   : one call of a DOM engine function over a page that renders  *)
(*             its comment threads as the call scrolls.                    *)
(***************************************************************************)
EXTENDS Integers, Sequences, FiniteSets, TLC

VARIABLES
    \* ---- run_batch_with_engine / run_engine_for_url ----
    urls,          \* argument: the list of targets
    engine,        \* argument: 'api', 'selenium' or 'both'
    api_key,       \* argument: the credential (None, '' or a key)
    output_file,   \* content of the output file: sequence of rows <<url, text>>
    pc,            \* position in run_batch_with_engine
    i,             \* index of the current target (enumerate(urls, start=1))
    comments,      \* run_engine_for_url: local `comments`
    last_error,    \* run_engine_for_url: local `last_error`
    total,         \* run_batch_with_engine: local `total`
    result,        \* value returned by run_batch_with_engine (None before)
    calls,         \* history: the engine invocations made so far
    written,       \* history: per completed target, how many rows were appended
    \* ---- fetch_comments_for_video ----
    fargs,         \* arguments: api_key, include_replies, max_comments,
                   \* checkpoint_path; and env, the Python environment of the call
    pages,         \* the source: pages of threads, a thread = its reply count
    ckpt,          \* content of the checkpoint file: sequence of lines
    ckpt_exists,   \* os.path.exists(checkpoint_path)
    fpc,           \* position in fetch_comments_for_video
    collected,     \* local `collected`
    fetched,       \* local `fetched`
    page,          \* index of the page last requested (0: none yet)
    tix,           \* index of the next thread of the current page
    loaded,        \* history: number of records loaded from the checkpoint
    requests,      \* history: number of page requests issued in this call
    run,           \* history: number of the current call (1, 2, ..)
    ckpt_at_start, \* history: the checkpoint file as the current call found it
    returned,      \* history: per finished call, how it ended and how much it returned
    trace,         \* history: what the current call did, in order
    \* ---- _safe_execute ----
    sargs,         \* arguments: max_retries, initial_delay
    spc,           \* position in _safe_execute
    attempt,       \* loop variable `attempt`
    sresult,       \* what _safe_execute returned or raised (None before)
    invoked,       \* history: the outcome of each request.execute()
    sleeps,        \* history: the argument of each time.sleep()
    \* -- DOM collection engine (extract_comments_detailed in
    \*    selenium_scraper.py, scrape_video_with_selenium in
    \*    youtube_comment_scraper.py)
    dargs,         \* fn, max_comments, expand_replies; ssl and selenium: whether
                   \* the modules can be imported
    dsource,       \* the comment threads of the watch page, in page order
    rendered,      \* how many of them the browser has rendered
    height,        \* document.documentElement.scrollHeight
    dpc,           \* position in the function
    driver,        \* the variable `driver`: "none", "open", "quit"
    dcomments,     \* the list `comments`
    seen,          \* the set `seen`
    last_height,   \* `last_height` / `previous_height`
    stagnation,    \* `stagnation` / `same_count`
    tidx,          \* position of the for loop in thread_selectors
    dresult,       \* what the function returned or raised (None before)
    dtrace,        \* history: sessions created and released, page loads, scans, scrolls
    observed       \* history: the page heights the function has read, in order

bvars == <<urls, engine, api_key, output_file, pc, i, comments, last_error,
           total, result, calls, written>>
fvars == <<fargs, pages, ckpt, ckpt_exists, fpc, collected, fetched, page, tix,
           loaded, requests, run, ckpt_at_start, returned, trace>>
svars == <<sargs, spc, attempt, sresult, invoked, sleeps>>
dvars == <<dargs, dsource, rendered, height, dpc, driver, dcomments, seen,
           last_height, stagnation, tidx, dresult, dtrace, observed>>
vars == <<bvars, fvars, svars, dvars>>

None == "None"

(***************************************************************************)
(* Bounds and input domains                                                *)
(***************************************************************************)
MaxUrls == 2
MaxComments == 2
Urls == {"u1", "u2"}
\* The comment lists an engine can return: <<>>, <<"c1">>, <<"c1", "c2">>, ..
CommentList(n) == [k \in 1..n |-> "c" \o ToString(k)]
CommentLists == {CommentList(n) : n \in 0..MaxComments}
Engines == {"api", "selenium", "both"}
ApiKeys == {None, "", "key"}

\* Sequences over S of length lo..hi
SeqsUpTo(S, lo, hi) == UNION {[1..n -> S] : n \in lo..hi}

RECURSIVE SumSeq(_)
SumSeq(s) == IF s = <<>> THEN 0 ELSE Head(s) + SumSeq(Tail(s))

IsPrefix(s, t) == Len(s) <= Len(t) /\ SubSeq(t, 1, Len(s)) = s

(***************************************************************************)
(* Orchestrator                                                            *)
(***************************************************************************)
Header == <<"video_url", "comment_or_error">>
NoComments == "(no comments found)"
ErrorText(e) == "ERROR: " \o e

\* Error messages of fetch_comments_via_api
KeyRequired == "YouTube Data API key is required"
ClientMissing == "google-api-python-client is not installed"
ApiError == "YouTube Data API error"
\* Error messages of scrape_video_with_selenium
SslMissing == "no SSL support"
SeleniumMissing == "Selenium is not installed"
DriverError == "WebDriverException"

Returned(cs) == [raised |-> FALSE, err |-> None, comments |-> cs]
Raised(e) == [raised |-> TRUE, err |-> e, comments |-> <<>>]

\* fetch_comments_via_api(url, api_key): what a call can do
fetch_comments_via_api(key) ==
    IF key \in {None, ""}
    THEN {Raised(KeyRequired)}
    ELSE {Raised(ClientMissing), Raised(ApiError)}
         \cup {Returned(cs) : cs \in CommentLists}

\* scrape_video_with_selenium(url, ...): what a call can do
scrape_video_with_selenium ==
    {Raised(SslMissing), Raised(SeleniumMissing), Raised(DriverError)}
    \cup {Returned(cs) : cs \in CommentLists}

\* line 153
UsesApi(e) == e \in {"api", "both"}

\* Variant of line 159 that runs the selenium engine in mode 'both' whatever the
\* API attempt gave
UsesSelenium_Always(e, cs) == (e = "selenium") \/ (e = "both")

\* line 159
UsesSelenium(e, cs) == (e = "selenium") \/ (e = "both" /\ cs = <<>>)

\* Variant of lines 166-176 that writes a placeholder only when there was an error
ResultRows_NoPlaceholder(url, cs, err) ==
    IF cs # <<>>
    THEN [k \in 1..Len(cs) |-> <<url, cs[k]>>]
    ELSE IF err # None
         THEN << <<url, ErrorText(err)>> >>
         ELSE <<>>

\* Variant of lines 166-176 that tests last_error before comments
ResultRows_ErrorFirst(url, cs, err) ==
    IF err # None
    THEN << <<url, ErrorText(err)>> >>
    ELSE IF cs # <<>>
         THEN [k \in 1..Len(cs) |-> <<url, cs[k]>>]
         ELSE << <<url, NoComments>> >>

\* Variant of lines 166-176 that drops the error text from the placeholder
ResultRows_NoErrorText(url, cs, err) ==
    IF cs # <<>>
    THEN [k \in 1..Len(cs) |-> <<url, cs[k]>>]
    ELSE << <<url, NoComments>> >>

\* lines 166-176: the rows appended for one target
ResultRows(url, cs, err) ==
    IF cs # <<>>
    THEN [k \in 1..Len(cs) |-> <<url, cs[k]>>]
    ELSE IF err # None
         THEN << <<url, ErrorText(err)>> >>
         ELSE << <<url, NoComments>> >>

\* Variant of line 177 that returns the number of rows written
WrittenCount_Rows(cs) == IF cs = <<>> THEN 1 ELSE Len(cs)

\* line 177: the value run_engine_for_url returns
WrittenCount(cs) == Len(cs)

\* Variant of line 166 that opens the file with 'w'
AppendRows_Truncate(file, rows) == rows

\* line 166: open(output_file, 'a')
AppendRows(file, rows) == file \o rows

\* lines 186-188: open(output_file, 'w') and the header row
WriteHeader(file) == <<Header>>

\* A file left by an earlier batch
StaleFile == <<Header, <<"u1", "c1">> >>

FetchIdle ==
    /\ fargs = [api_key |-> None, include_replies |-> FALSE, max_comments |-> 0,
                checkpoint_path |-> FALSE, env |-> "idle"]
    /\ pages = <<>>
    /\ ckpt = <<>>
    /\ ckpt_exists = FALSE
    /\ fpc = "idle"
    /\ collected = <<>>
    /\ fetched = 0
    /\ page = 0
    /\ tix = 0
    /\ loaded = 0
    /\ requests = 0
    /\ run = 0
    /\ ckpt_at_start = <<>>
    /\ returned = <<>>
    /\ trace = <<>>

SafeIdle ==
    /\ sargs = [max_retries |-> 0, initial_delay |-> 0, client |-> FALSE]
    /\ spc = "idle"
    /\ attempt = 0
    /\ sresult = None
    /\ invoked = <<>>
    /\ sleeps = <<>>

DomIdle ==
    /\ dargs = [fn |-> "idle", max_comments |-> 0, expand_replies |-> FALSE,
                ssl |-> FALSE, selenium |-> FALSE]
    /\ dsource = <<>>
    /\ rendered = 0
    /\ height = 0
    /\ dpc = "idle"
    /\ driver = "none"
    /\ dcomments = <<>>
    /\ seen = {}
    /\ last_height = 0
    /\ stagnation = 0
    /\ tidx = 0
    /\ dresult = None
    /\ dtrace = <<>>
    /\ observed = <<>>

Init ==
    /\ urls \in SeqsUpTo(Urls, 0, MaxUrls)
    /\ engine \in Engines
    /\ api_key \in ApiKeys
    /\ output_file \in {<<>>, StaleFile}
    /\ pc = "start"
    /\ i = 0
    /\ comments = <<>>
    /\ last_error = None
    /\ total = 0
    /\ result = None
    /\ calls = <<>>
    /\ written = <<>>
    /\ FetchIdle
    /\ SafeIdle
    /\ DomIdle

\* lines 181-182: an empty list raises ValueError before the file is touched
RejectEmpty ==
    /\ pc = "start"
    /\ urls = <<>>
    /\ pc' = "raised"
    /\ UNCHANGED <<urls, engine, api_key, output_file, i, comments, last_error,
                   total, result, calls, written>>
    /\ UNCHANGED <<fvars, svars, dvars>>

\* lines 183-191: truncate the file, write the header, enter the loop with the
\* first url; lines 151-152 initialise the locals of run_engine_for_url
StartBatch ==
    /\ pc = "start"
    /\ urls # <<>>
    /\ output_file' = WriteHeader(output_file)
    /\ total' = 0
    /\ i' = 1
    /\ comments' = <<>>
    /\ last_error' = None
    /\ pc' = "api"
    /\ UNCHANGED <<urls, engine, api_key, result, calls, written>>
    /\ UNCHANGED <<fvars, svars, dvars>>

\* lines 153-158: the API attempt
CallApi ==
    /\ pc = "api"
    /\ UsesApi(engine)
    /\ \E o \in fetch_comments_via_api(api_key) :
        /\ comments' = o.comments
        /\ last_error' = IF o.raised THEN o.err ELSE last_error
        /\ calls' = Append(calls, [target |-> i, engine |-> "api", raised |-> o.raised,
                                   err |-> o.err, comments |-> o.comments])
    /\ pc' = "selenium"
    /\ UNCHANGED <<urls, engine, api_key, output_file, i, total, result, written>>
    /\ UNCHANGED <<fvars, svars, dvars>>

\* line 153, condition false: engine = 'selenium'
SkipApi ==
    /\ pc = "api"
    /\ ~UsesApi(engine)
    /\ pc' = "selenium"
    /\ UNCHANGED <<urls, engine, api_key, output_file, i, comments, last_error,
                   total, result, calls, written>>
    /\ UNCHANGED <<fvars, svars, dvars>>

\* Variant of lines 159-164 that forgets the API engine's error when the DOM
\* engine returns
CallSelenium_ResetsError ==
    /\ pc = "selenium"
    /\ UsesSelenium(engine, comments)
    /\ \E o \in scrape_video_with_selenium :
        /\ comments' = o.comments
        /\ last_error' = IF o.raised THEN o.err ELSE None
        /\ calls' = Append(calls, [target |-> i, engine |-> "selenium", raised |-> o.raised,
                                   err |-> o.err, comments |-> o.comments])
    /\ pc' = "write"
    /\ UNCHANGED <<urls, engine, api_key, output_file, i, total, result, written>>
    /\ UNCHANGED <<fvars, svars, dvars>>

\* lines 159-164: the selenium attempt
CallSelenium ==
    /\ pc = "selenium"
    /\ UsesSelenium(engine, comments)
    /\ \E o \in scrape_video_with_selenium :
        /\ comments' = o.comments
        /\ last_error' = IF o.raised THEN o.err ELSE last_error
        /\ calls' = Append(calls, [target |-> i, engine |-> "selenium", raised |-> o.raised,
                                   err |-> o.err, comments |-> o.comments])
    /\ pc' = "write"
    /\ UNCHANGED <<urls, engine, api_key, output_file, i, total, result, written>>
    /\ UNCHANGED <<fvars, svars, dvars>>

\* line 159, condition false
SkipSelenium ==
    /\ pc = "selenium"
    /\ ~UsesSelenium(engine, comments)
    /\ pc' = "write"
    /\ UNCHANGED <<urls, engine, api_key, output_file, i, comments, last_error,
                   total, result, calls, written>>
    /\ UNCHANGED <<fvars, svars, dvars>>

\* lines 165-177 and 194-196: append the rows of the current target, add the
\* returned count to total, go on with the next url (or leave the loop)
WriteResults ==
    /\ pc = "write"
    /\ LET rows == ResultRows(urls[i], comments, last_error)
           c == WrittenCount(comments)
       IN /\ output_file' = AppendRows(output_file, rows)
          /\ total' = total + c
          /\ written' = Append(written, [url |-> urls[i], nrows |-> Len(rows), c |-> c])
    /\ IF i < Len(urls)
       THEN /\ i' = i + 1
            /\ pc' = "api"
       ELSE /\ i' = i
            /\ pc' = "return"
    /\ comments' = <<>>
    /\ last_error' = None
    /\ UNCHANGED <<urls, engine, api_key, result, calls>>
    /\ UNCHANGED <<fvars, svars, dvars>>

\* lines 199-200
ReturnTotal ==
    /\ pc = "return"
    /\ result' = total
    /\ pc' = "done"
    /\ UNCHANGED <<urls, engine, api_key, output_file, i, comments, last_error,
                   total, calls, written>>
    /\ UNCHANGED <<fvars, svars, dvars>>

Next ==
    \/ RejectEmpty
    \/ StartBatch
    \/ CallApi
    \/ SkipApi
    \/ CallSelenium
    \/ SkipSelenium
    \/ WriteResults
    \/ ReturnTotal

Spec == Init /\ [][Next]_vars


(***************************************************************************)
(* API collection engine: fetch_comments_for_video                         *)
(***************************************************************************)
MaxThreads == 3
MaxRuns == 2
CheckpointEvery == 50

\* Replies embedded in a thread, page sizes of the source, caller caps
\* (0 stands for max_comments=None)
ReplyCounts == {0, 1, 49}
PageSizes == {1, 2}
Caps == {0, 2, 51}

Min(a, b) == IF a < b THEN a ELSE b

\* The source as the API serves it: the threads cut into pages of `size`
\* threads; a video without comments has one page without items
Paged(threads, size) ==
    IF threads = <<>>
    THEN << <<>> >>
    ELSE [p \in 1..((Len(threads) + size - 1) \div size) |->
            SubSeq(threads, (p - 1) * size + 1, Min(p * size, Len(threads)))]

Sources == {Paged(ts, size) : ts \in SeqsUpTo(ReplyCounts, 0, MaxThreads), size \in PageSizes}

\* Number of the thread at position t of page p, counted over the whole source
ThreadNo(p, t) == SumSeq([q \in 1..(p - 1) |-> Len(pages[q])]) + t

\* lines 114-121: the record of the top-level comment of thread g
TopEntry(g) == [comment_id |-> g * 100, parent_id |-> 0]

\* lines 130-137: the record of reply r of thread g
ReplyEntry(g, r) == [comment_id |-> g * 100 + r, parent_id |-> TopEntry(g).comment_id]

\* lines 111-139: the records one thread adds to `collected`
ThreadRecords(g, nreplies, include_replies) ==
    <<TopEntry(g)>> \o
    (IF include_replies THEN [r \in 1..nreplies |-> ReplyEntry(g, r)] ELSE <<>>)

\* A line that is text but no JSON document (a truncated record, a blank line),
\* and a line whose bytes are no UTF-8 text (a record cut inside a character)
Garbage == [text |-> "garbage", comment_id |-> 0, parent_id |-> 0]
Undecodable == [text |-> "undecodable", comment_id |-> 0, parent_id |-> 0]

\* json.dumps(obj) + '\n' and json.loads(line)
Dumps(obj) == [text |-> "json", comment_id |-> obj.comment_id, parent_id |-> obj.parent_id]
WellFormed(line) == line.text = "json"
Loads(line) == [comment_id |-> line.comment_id, parent_id |-> line.parent_id]
DumpAll(objs) == [k \in 1..Len(objs) |-> Dumps(objs[k])]

\* lines 87-93: the records of the well-formed lines, in file order
LoadCheckpoint(lines) ==
    LET good == SelectSeq(lines, WellFormed)
    IN [k \in 1..Len(good) |-> Loads(good[k])]

\* line 88: iterating the file decodes it as UTF-8 (errors='strict')
Decodable(lines) == \A k \in 1..Len(lines) : lines[k].text # "undecodable"

\* Checkpoint files an earlier, interrupted run can have left: two records of
\* another thread around a damaged line
OldFile == <<Dumps(TopEntry(9)), Garbage, Dumps(ReplyEntry(9, 1))>>
BadBytesFile == <<Dumps(TopEntry(9)), Undecodable, Dumps(ReplyEntry(9, 1))>>
InitialFiles == {<<>>, OldFile, BadBytesFile}

\* Python's s[-k:] for k >= 1
LastK(s, k) == SubSeq(s, Len(s) - Min(k, Len(s)) + 1, Len(s))

\* lines 126 and 142: the periodic checkpoint is written only inside the
\* include_replies branch, when len(collected) is a multiple of 50
PeriodicDue(include_replies, checkpoint_path, n) ==
    include_replies /\ checkpoint_path /\ n % CheckpointEvery = 0

\* lines 126 and 148: the cap is tested only inside the include_replies branch
CapReached(include_replies, max_comments, n) ==
    include_replies /\ max_comments # 0 /\ n >= max_comments

\* line 144
PeriodicSlice(col) == LastK(col, CheckpointEvery)

\* line 153
CapSlice(col, n) == LastK(col, IF n < CheckpointEvery THEN n ELSE CheckpointEvery)

\* line 163
FinalSlice(col) == LastK(col, IF Len(col) < CheckpointEvery THEN Len(col) ELSE CheckpointEvery)

\* The Python environment of a call: google-api-python-client importable; not
\* importable; not importable with _build_service replaced by a fake service,
\* which is the set-up of _selftest_mock (lines 175-221)
ClientInstalled == "client installed"
NoClient == "client missing"
SelfTest == "client missing, fake service"
Envs == {ClientInstalled, NoClient, SelfTest}

BatchIdle ==
    /\ urls = <<>>
    /\ engine = "api"
    /\ api_key = None
    /\ output_file = <<>>
    /\ pc = "idle"
    /\ i = 0
    /\ comments = <<>>
    /\ last_error = None
    /\ total = 0
    /\ result = None
    /\ calls = <<>>
    /\ written = <<>>

InitFetch ==
    /\ fargs \in [api_key : ApiKeys, include_replies : BOOLEAN,
                  max_comments : Caps, checkpoint_path : BOOLEAN, env : Envs]
    /\ pages \in Sources
    /\ ckpt \in IF fargs.checkpoint_path THEN InitialFiles ELSE {<<>>}
    /\ ckpt_exists = (ckpt # <<>>)
    /\ fpc = "start"
    /\ collected = <<>>
    /\ fetched = 0
    /\ page = 0
    /\ tix = 0
    /\ loaded = 0
    /\ requests = 0
    /\ run = 1
    /\ ckpt_at_start = <<>>
    /\ returned = <<>>
    /\ trace = <<>>
    /\ BatchIdle
    /\ SafeIdle
    /\ DomIdle

\* Variant of line 79 that tests `api_key is None`
HasKey_NotNone(key) == key # None

\* line 79: `if not api_key`
HasKey(key) == key \notin {None, ""}

\* lines 79-80: no credential
MissingKey ==
    /\ fpc = "start"
    /\ ~HasKey(fargs.api_key)
    /\ fpc' = "raised"
    /\ returned' = Append(returned, [how |-> "API key required", n |-> 0])
    /\ UNCHANGED <<fargs, pages, ckpt, ckpt_exists, collected, fetched, page, tix,
                   loaded, requests, run, ckpt_at_start, trace>>
    /\ UNCHANGED <<bvars, svars, dvars>>

\* lines 82 and 28-39: _build_service raises YouTubeAPIError (the client library
\* is missing, or build() failed)
BuildFails ==
    /\ fpc = "start"
    /\ HasKey(fargs.api_key)
    /\ fargs.env \in {ClientInstalled, NoClient}
    /\ trace' = Append(trace, "build_service")
    /\ fpc' = "raised"
    /\ returned' = Append(returned, [how |-> "build failed", n |-> 0])
    /\ UNCHANGED <<fargs, pages, ckpt, ckpt_exists, collected, fetched, page, tix,
                   loaded, requests, run, ckpt_at_start>>
    /\ UNCHANGED <<bvars, svars, dvars>>

\* lines 82-93: the service is built, the checkpoint file exists and reading it
\* raises UnicodeDecodeError (line 88 is outside the try of line 89)
LoadFails ==
    /\ fpc = "start"
    /\ HasKey(fargs.api_key)
    /\ fargs.env # NoClient
    /\ fargs.checkpoint_path /\ ckpt_exists
    /\ ~Decodable(ckpt)
    /\ trace' = trace \o <<"build_service", "read_checkpoint">>
    /\ ckpt_at_start' = ckpt
    /\ fpc' = "raised"
    /\ returned' = Append(returned, [how |-> "UnicodeDecodeError", n |-> 0])
    /\ UNCHANGED <<fargs, pages, ckpt, ckpt_exists, collected, fetched, page, tix,
                   loaded, requests, run>>
    /\ UNCHANGED <<bvars, svars, dvars>>

\* lines 82-98: build the service, load the checkpoint if the file exists
LoadAndStart ==
    /\ fpc = "start"
    /\ HasKey(fargs.api_key)
    /\ fargs.env # NoClient
    /\ (fargs.checkpoint_path /\ ckpt_exists) => Decodable(ckpt)
    /\ collected' = IF fargs.checkpoint_path /\ ckpt_exists
                    THEN LoadCheckpoint(ckpt) ELSE <<>>
    /\ trace' = trace \o <<"build_service">> \o
                (IF fargs.checkpoint_path /\ ckpt_exists THEN <<"read_checkpoint">> ELSE <<>>)
    /\ loaded' = Len(collected')
    /\ ckpt_at_start' = ckpt
    /\ fetched' = 0
    /\ page' = 0
    /\ tix' = 0
    /\ requests' = 0
    /\ fpc' = "request"
    /\ UNCHANGED <<fargs, pages, ckpt, ckpt_exists, run, returned>>
    /\ UNCHANGED <<bvars, svars, dvars>>

\* lines 101-109: one page request through _safe_execute, answered; line 43
\* needs googleapiclient.errors to be importable
RequestPage ==
    /\ fpc = "request"
    /\ fargs.env = ClientInstalled
    /\ requests' = requests + 1
    /\ trace' = Append(trace, "request")
    /\ page' = page + 1
    /\ tix' = 1
    /\ fpc' = "items"
    /\ UNCHANGED <<fargs, pages, ckpt, ckpt_exists, collected, fetched, loaded, run,
                   ckpt_at_start, returned>>
    /\ UNCHANGED <<bvars, svars, dvars>>

\* line 108: _safe_execute raises (retries exhausted, a non-retryable error, or
\* ModuleNotFoundError from the import of line 43); nothing in
\* fetch_comments_for_video catches it
RequestFails ==
    /\ fpc = "request"
    /\ requests' = requests + 1
    /\ trace' = Append(trace, "request")
    /\ fpc' = "raised"
    /\ returned' = Append(returned,
                    [how |-> IF fargs.env = ClientInstalled THEN "request failed"
                             ELSE "ModuleNotFoundError", n |-> 0])
    /\ UNCHANGED <<fargs, pages, ckpt, ckpt_exists, collected, fetched, page, tix,
                   loaded, run, ckpt_at_start>>
    /\ UNCHANGED <<bvars, svars, dvars>>

\* lines 110-155: one thread of the current page
ProcessThread ==
    /\ fpc = "items"
    /\ tix <= Len(pages[page])
    /\ LET recs == ThreadRecords(ThreadNo(page, tix), pages[page][tix], fargs.include_replies)
           col == collected \o recs
           n == fetched + Len(recs)
           periodic == PeriodicDue(fargs.include_replies, fargs.checkpoint_path, Len(col))
           capped == CapReached(fargs.include_replies, fargs.max_comments, n)
           ck1 == IF periodic THEN ckpt \o DumpAll(PeriodicSlice(col)) ELSE ckpt
           ck2 == IF capped /\ fargs.checkpoint_path
                  THEN ck1 \o DumpAll(CapSlice(col, n)) ELSE ck1
       IN /\ collected' = col
          /\ fetched' = n
          /\ ckpt' = ck2
          /\ ckpt_exists' = (ckpt_exists \/ periodic \/ (capped /\ fargs.checkpoint_path))
          /\ trace' = trace \o (IF periodic THEN <<"write_checkpoint">> ELSE <<>>)
                            \o (IF capped /\ fargs.checkpoint_path
                                THEN <<"write_checkpoint">> ELSE <<>>)
          /\ IF capped
             THEN /\ fpc' = "returned"
                  /\ returned' = Append(returned, [how |-> "cap", n |-> Len(col)])
                  /\ tix' = tix
             ELSE /\ fpc' = "items"
                  /\ returned' = returned
                  /\ tix' = tix + 1
    /\ UNCHANGED <<fargs, pages, page, loaded, requests, run, ckpt_at_start>>
    /\ UNCHANGED <<bvars, svars, dvars>>

\* lines 157-159: the response carries a nextPageToken
NextPage ==
    /\ fpc = "items"
    /\ tix > Len(pages[page])
    /\ page < Len(pages)
    /\ fpc' = "request"
    /\ UNCHANGED <<fargs, pages, ckpt, ckpt_exists, collected, fetched, page, tix,
                   loaded, requests, run, ckpt_at_start, returned, trace>>
    /\ UNCHANGED <<bvars, svars, dvars>>

\* lines 157-167: no nextPageToken: final checkpoint and return
FinishFetch ==
    /\ fpc = "items"
    /\ tix > Len(pages[page])
    /\ page = Len(pages)
    /\ LET final == fargs.checkpoint_path /\ collected # <<>>
       IN /\ ckpt' = IF final THEN ckpt \o DumpAll(FinalSlice(collected)) ELSE ckpt
          /\ ckpt_exists' = (ckpt_exists \/ final)
          /\ trace' = IF final THEN Append(trace, "write_checkpoint") ELSE trace
    /\ fpc' = "returned"
    /\ returned' = Append(returned, [how |-> "exhausted", n |-> Len(collected)])
    /\ UNCHANGED <<fargs, pages, collected, fetched, page, tix, loaded, requests, run,
                   ckpt_at_start>>
    /\ UNCHANGED <<bvars, svars, dvars>>

\* The caller invokes fetch_comments_for_video again with the same arguments;
\* the checkpoint file is as the previous call left it
CallAgain ==
    /\ fpc \in {"returned", "raised"}
    /\ HasKey(fargs.api_key)
    /\ run < MaxRuns
    /\ run' = run + 1
    /\ fpc' = "start"
    /\ collected' = <<>>
    /\ fetched' = 0
    /\ page' = 0
    /\ tix' = 0
    /\ loaded' = 0
    /\ requests' = 0
    /\ trace' = <<>>
    /\ UNCHANGED <<fargs, pages, ckpt, ckpt_exists, ckpt_at_start, returned>>
    /\ UNCHANGED <<bvars, svars, dvars>>

NextFetch ==
    \/ MissingKey
    \/ BuildFails
    \/ LoadFails
    \/ LoadAndStart
    \/ RequestPage
    \/ RequestFails
    \/ ProcessThread
    \/ NextPage
    \/ FinishFetch
    \/ CallAgain

SpecFetch == InitFetch /\ [][NextFetch]_vars


(***************************************************************************)
(* Backoff executor: _safe_execute                                         *)
(***************************************************************************)
\* line 41: the default of max_retries; line 53: the ceiling of one wait
DefaultMaxRetries == 6
Ceiling == 60

\* Arguments of a call: max_retries, and initial_delay in seconds
RetryChoices == {0, 1, 3, DefaultMaxRetries}
InitialDelays == {1, 8, 100}

\* What request.execute() can do: return the response, raise HttpError with a
\* status (0: the error carries no status), raise another exception
Value == [kind |-> "ok", status |-> 0, exc |-> "none"]
HttpError(status) == [kind |-> "http", status |-> status, exc |-> "HttpError"]
OtherError(e) == [kind |-> "other", status |-> 0, exc |-> e]
Statuses == {0, 400, 401, 403, 429, 503}
OtherExceptions == {"ConnectionError", "TypeError"}
MaxRetriesExceeded == "Max retries exceeded for API request"

\* Variant of line 51 that retries rate limits and server errors only
Retryable_Not403(status) == status = 429 \/ (status # 0 /\ 500 <= status /\ status < 600)

\* line 51: the statuses that are retried
Retryable(status) ==
    status \in {403, 429} \/ (status # 0 /\ 500 <= status /\ status < 600)

\* Variant of lines 52-53 whose wait grows linearly
Backoff_Linear(delay, n) == Min(Ceiling, delay * (n + 1))

\* Variant of lines 52-53 without the ceiling
Backoff_NoCeiling(delay, n) == delay * 2^n

\* lines 52-53 and 60-61: the wait after failed attempt n (counted from 0)
Backoff(delay, n) == Min(Ceiling, delay * 2^n)

\* Variant of line 45 with one attempt more
MoreAttempts_OneMore(n, max_retries) == n <= max_retries

\* line 45: `for attempt in range(max_retries)`
MoreAttempts(n, max_retries) == n < max_retries

InitBackoff ==
    /\ sargs \in [max_retries : RetryChoices, initial_delay : InitialDelays,
                  client : BOOLEAN]
    /\ spc = "start"
    /\ attempt = 0
    /\ sresult = None
    /\ invoked = <<>>
    /\ sleeps = <<>>
    /\ BatchIdle
    /\ FetchIdle
    /\ DomIdle

\* line 43: googleapiclient is not importable
ImportFails ==
    /\ spc = "start"
    /\ ~sargs.client
    /\ spc' = "raised"
    /\ sresult' = "ModuleNotFoundError"
    /\ UNCHANGED <<sargs, attempt, invoked, sleeps>>
    /\ UNCHANGED <<bvars, fvars, dvars>>

\* lines 43-45: the import succeeds, the loop starts
EnterLoop ==
    /\ spc = "start"
    /\ sargs.client
    /\ spc' = "loop"
    /\ attempt' = 0
    /\ UNCHANGED <<sargs, sresult, invoked, sleeps>>
    /\ UNCHANGED <<bvars, fvars, dvars>>

\* lines 46-47: the request is executed and its response returned
AttemptSucceeds ==
    /\ spc = "loop"
    /\ MoreAttempts(attempt, sargs.max_retries)
    /\ invoked' = Append(invoked, Value)
    /\ sresult' = "response"
    /\ spc' = "returned"
    /\ UNCHANGED <<sargs, attempt, sleeps>>
    /\ UNCHANGED <<bvars, fvars, dvars>>

\* lines 48-56 and 58-63: the request raises HttpError with a retried status,
\* or an exception that is no HttpError; the call sleeps and goes on with the
\* next attempt
AttemptRetried ==
    /\ spc = "loop"
    /\ MoreAttempts(attempt, sargs.max_retries)
    /\ \E o \in {HttpError(st) : st \in {x \in Statuses : Retryable(x)}}
                 \cup {OtherError(e) : e \in OtherExceptions} :
            invoked' = Append(invoked, o)
    /\ sleeps' = Append(sleeps, Backoff(sargs.initial_delay, attempt))
    /\ attempt' = attempt + 1
    /\ UNCHANGED <<sargs, spc, sresult>>
    /\ UNCHANGED <<bvars, fvars, dvars>>

\* lines 48-51 and 57: the request raises HttpError with another status, which
\* is raised again
AttemptRaises ==
    /\ spc = "loop"
    /\ MoreAttempts(attempt, sargs.max_retries)
    /\ \E st \in {x \in Statuses : ~Retryable(x)} :
            invoked' = Append(invoked, HttpError(st))
    /\ sresult' = "HttpError"
    /\ spc' = "raised"
    /\ UNCHANGED <<sargs, attempt, sleeps>>
    /\ UNCHANGED <<bvars, fvars, dvars>>

\* line 64: the loop ran out of attempts
RetriesExhausted ==
    /\ spc = "loop"
    /\ ~MoreAttempts(attempt, sargs.max_retries)
    /\ sresult' = MaxRetriesExceeded
    /\ spc' = "raised"
    /\ UNCHANGED <<sargs, attempt, invoked, sleeps>>
    /\ UNCHANGED <<bvars, fvars, dvars>>

NextBackoff ==
    \/ ImportFails
    \/ EnterLoop
    \/ AttemptSucceeds
    \/ AttemptRetried
    \/ AttemptRaises
    \/ RetriesExhausted

SpecBackoff == InitBackoff /\ [][NextBackoff]_vars

(***************************************************************************)
(* Orchestrator: properties                                                *)
(***************************************************************************)
AllErrors == {KeyRequired, ClientMissing, ApiError, SslMissing, SeleniumMissing, DriverError}

IsErrorRow(row) == row[2] \in {ErrorText(e) : e \in AllErrors}
IsPlaceholder(row) == row[2] = NoComments \/ IsErrorRow(row)

\* The engine invocations made for target k, in the order they were made
CallsOf(k) == SelectSeq(calls, LAMBDA c : c.target = k)
LastCall(k) == CallsOf(k)[Len(CallsOf(k))]
EnginesOf(k) == [j \in 1..Len(CallsOf(k)) |-> CallsOf(k)[j].engine]

\* The rows of the output file that belong to completed target k
RowStart(k) == 2 + SumSeq([j \in 1..(k - 1) |-> written[j].nrows])
TargetRows(k) == SubSeq(output_file, RowStart(k), RowStart(k) + written[k].nrows - 1)

Completed == 1..Len(written)

\* C1: when run_batch_with_engine finishes, the output file is one header row
\* followed, for each target of the list in turn, by at least one row carrying
\* that target's url; no target has zero rows.
C1_HeaderAndRowsPerTarget ==
    pc = "done" =>
        /\ Len(written) = Len(urls)
        /\ Len(output_file) = 1 + SumSeq([k \in Completed |-> written[k].nrows])
        /\ output_file[1] = Header
        /\ Cardinality({r \in 1..Len(output_file) : output_file[r] = Header}) = 1
        /\ \A k \in Completed :
            /\ Len(TargetRows(k)) >= 1
            /\ \A r \in 1..Len(TargetRows(k)) : TargetRows(k)[r][1] = urls[k]

\* C1 witness: a finished batch of two targets, one of which ended with an empty
\* result without error and one with an exception
C1_Witness ==
    /\ pc = "done"
    /\ Len(urls) = 2
    /\ \E k \in Completed : ~LastCall(k).raised /\ LastCall(k).comments = <<>>
    /\ \E k \in Completed : LastCall(k).raised

AllAttemptsRaised(k) == \A j \in 1..Len(CallsOf(k)) : CallsOf(k)[j].raised

\* C2: when every engine attempted for a target raised, exactly one placeholder
\* row with the captured error text is written for it; no exception leaves
\* run_batch_with_engine once an engine has been invoked, and the batch goes on
\* until every target is processed.
C2_FailureBecomesPlaceholder ==
    /\ \A k \in Completed :
        AllAttemptsRaised(k) =>
            TargetRows(k) = << <<urls[k], ErrorText(LastCall(k).err)>> >>
    /\ pc = "raised" => calls = <<>>
    /\ pc = "done" => Len(written) = Len(urls)
    /\ pc \notin {"done", "raised"} => ENABLED Next

\* C2 witness: in mode 'both' the first target failed in both engines and the
\* batch still finished the second target
C2_Witness ==
    /\ pc = "done"
    /\ engine = "both"
    /\ Len(urls) = 2
    /\ Len(CallsOf(1)) = 2
    /\ AllAttemptsRaised(1)
    /\ ~AllAttemptsRaised(2)

\* C3: per target, mode 'api' invokes only the API engine, mode 'selenium' only
\* the DOM engine, and mode 'both' the API engine first and the DOM engine after
\* it iff the API attempt raised or returned no record; no engine is invoked
\* twice for one target.
C3_EngineSelection ==
    /\ \A k \in 1..Len(urls) :
        /\ Len(CallsOf(k)) <= 2
        /\ \A a, b \in 1..Len(CallsOf(k)) :
            a # b => CallsOf(k)[a].engine # CallsOf(k)[b].engine
    /\ \A k \in Completed :
        /\ engine = "api" => EnginesOf(k) = <<"api">>
        /\ engine = "selenium" => EnginesOf(k) = <<"selenium">>
        /\ engine = "both" =>
            LET first == CallsOf(k)[1]
            IN /\ first.engine = "api"
               /\ IF first.raised \/ first.comments = <<>>
                  THEN EnginesOf(k) = <<"api", "selenium">>
                  ELSE EnginesOf(k) = <<"api">>

\* C3 witness: a finished batch in mode 'both' with one target answered by the
\* API alone and one that fell back after an empty API result
C3_Witness ==
    /\ pc = "done"
    /\ engine = "both"
    /\ \E k \in Completed : Len(CallsOf(k)) = 1
    /\ \E k \in Completed :
        /\ Len(CallsOf(k)) = 2
        /\ ~CallsOf(k)[1].raised

\* C4: when the engine that ran last for a target returned n >= 1 records, the
\* target's rows are exactly those n records and none is a placeholder, also
\* after a failed API attempt; a target's rows are either all data rows or one
\* single placeholder.
C4_RecordsOrPlaceholder ==
    \A k \in Completed :
        /\ LastCall(k).comments # <<>> =>
            /\ TargetRows(k) = [r \in 1..Len(LastCall(k).comments) |->
                                    <<urls[k], LastCall(k).comments[r]>>]
            /\ \A r \in 1..Len(TargetRows(k)) : ~IsPlaceholder(TargetRows(k)[r])
        /\ \/ \A r \in 1..Len(TargetRows(k)) : ~IsPlaceholder(TargetRows(k)[r])
           \/ Len(TargetRows(k)) = 1 /\ IsPlaceholder(TargetRows(k)[1])

\* C4 witness: mode 'both', the API raised for the missing key and the DOM
\* engine returned two records, which were written
C4_Witness ==
    \E k \in Completed :
        /\ Len(CallsOf(k)) = 2
        /\ CallsOf(k)[1].raised
        /\ CallsOf(k)[1].err = KeyRequired
        /\ Len(LastCall(k).comments) = 2

DataRows == {r \in 2..Len(output_file) : ~IsPlaceholder(output_file[r])}

\* C5: the running total is the sum of the record counts of the completed
\* targets, which is the number of rows after the header that are not
\* placeholders; the value returned is that total, and the total never decreases.
C5_TotalIsRecordCount ==
    /\ [](/\ pc \notin {"start", "raised"} =>
              /\ total = SumSeq([k \in Completed |-> Len(LastCall(k).comments)])
              /\ total = Cardinality(DataRows)
          /\ pc = "done" => result = total)
    /\ [][total' >= total]_vars

\* C5 witness: a finished batch that returned two records and also wrote a
\* placeholder row
C5_Witness ==
    /\ pc = "done"
    /\ result = 2
    /\ \E r \in 2..Len(output_file) : IsPlaceholder(output_file[r])

\* C6: targets are processed in list order, one at a time: when an engine is
\* invoked for target k the file holds the header and all rows of targets
\* 1..k-1, and once the header is written a step only appends to the file.
C6_SequentialAppend ==
    /\ [](pc \notin {"start", "raised"} =>
            /\ Len(written) = IF pc \in {"api", "selenium", "write"} THEN i - 1 ELSE i
            /\ \A k \in Completed : written[k].url = urls[k] /\ written[k].nrows >= 1
            /\ Len(output_file) = 1 + SumSeq([k \in Completed |-> written[k].nrows])
            /\ \A k \in Completed :
                \A r \in 1..Len(TargetRows(k)) : TargetRows(k)[r][1] = urls[k]
            /\ \A a, b \in 1..Len(calls) : a < b => calls[a].target <= calls[b].target)
    /\ [][/\ calls' # calls =>
              /\ calls'[Len(calls')].target = Len(written) + 1
              /\ output_file' = output_file
          /\ pc # "start" => IsPrefix(output_file, output_file')]_vars

\* C6 witness: the engine is about to be invoked for the second target and the
\* two rows of the first are in the file
C6_Witness ==
    /\ pc = "api"
    /\ i = 2
    /\ Len(output_file) = 3
    /\ output_file[2][1] = urls[1]
    /\ output_file[3][1] = urls[1]


(***************************************************************************)
(* API collection engine: properties                                       *)
(***************************************************************************)
Range(f) == {f[k] : k \in DOMAIN f}

Running == fpc \in {"request", "items"}

\* Positions of `collected` filled by this call whose record has no line in
\* the checkpoint file
Unflushed == {k \in (loaded + 1)..Len(collected) : Dumps(collected[k]) \notin Range(ckpt)}

\* C7: with a checkpoint path, at every point of a call the number of records
\* collected by the call that are not yet in the checkpoint file is at most
\* N - 1 (N = 50).
C7_UnflushedBelowN ==
    (fargs.checkpoint_path /\ Running) => Cardinality(Unflushed) <= CheckpointEvery - 1

\* C8: when a call returns with a checkpoint path, every record of the returned
\* list has a line in the checkpoint file.
C8_ReturnedIsPersisted ==
    (fargs.checkpoint_path /\ fpc = "returned") =>
        \A k \in 1..Len(collected) : Dumps(collected[k]) \in Range(ckpt)

\* C9: a call returns either because the source gave no further page cursor or
\* because the cap max_comments was reached; once the cap is reached the call
\* returns at once, so it is never still running with fetched >= max_comments,
\* whatever include_replies is.
C9_EndsOnCursorOrCap ==
    /\ fpc = "returned" =>
        LET last == returned[Len(returned)]
        IN \/ last.how = "exhausted" /\ page = Len(pages) /\ tix > Len(pages[page])
           \/ last.how = "cap" /\ fargs.max_comments # 0 /\ fetched >= fargs.max_comments
    /\ (Running /\ fargs.max_comments # 0) => fetched < fargs.max_comments

Occurrences(s, x) == Cardinality({k \in 1..Len(s) : s[k] = x})

\* C10: a call that starts with a non-empty checkpoint file returns a list in
\* which every record of that file occurs exactly once, and a second complete
\* call over the same source returns a list no longer than the first.
C10_CheckpointedNotRefetched ==
    /\ (fpc = "returned" /\ fargs.checkpoint_path /\ ckpt_at_start # <<>>) =>
        \A r \in Range(LoadCheckpoint(ckpt_at_start)) : Occurrences(collected, r) = 1
    /\ fargs.checkpoint_path =>
        \A a, b \in 1..Len(returned) :
            (a < b /\ returned[a].how = "exhausted" /\ returned[b].how = "exhausted")
                => returned[b].n <= returned[a].n

\* Number of threads of the whole source
TotalThreads == SumSeq([q \in 1..Len(pages) |-> Len(pages[q])])

\* A call with a credential, without replies, cap and checkpoint path
PlainCall ==
    /\ HasKey(fargs.api_key)
    /\ ~fargs.include_replies
    /\ fargs.max_comments = 0
    /\ ~fargs.checkpoint_path

\* C11: a call without replies, cap and checkpoint path issues one request per
\* page and returns one record per thread, in page order, and writes no
\* checkpoint; the call of _selftest_mock, whose fake service answers every
\* request, returns its records and does not raise.
C11_OneRecordPerThread ==
    PlainCall =>
        /\ ckpt = <<>>
        /\ \A k \in 1..Len(trace) : trace[k] = "request" \/ trace[k] = "build_service"
        /\ Running => requests = page
        /\ fpc = "returned" =>
            /\ requests = Len(pages)
            /\ collected = [g \in 1..TotalThreads |-> TopEntry(g)]
        /\ fargs.env = SelfTest => fpc # "raised"

\* C20: with an absent or empty credential the API engine fails at once with
\* the missing-credential error: the service is not built, the checkpoint is
\* not read, no page is requested and the checkpoint file is left as it was;
\* fetch_comments_via_api raises its missing-credential error and nothing else.
C20_MissingKeyFailsFirst ==
    /\ [](fargs.api_key \in {None, ""} =>
            /\ fpc \in {"idle", "start", "raised"}
            /\ trace = <<>>
            /\ requests = 0
            /\ collected = <<>>
            /\ fpc = "raised" => returned = <<[how |-> "API key required", n |-> 0]>>
            /\ fetch_comments_via_api(fargs.api_key) = {Raised(KeyRequired)})
    /\ [][fargs.api_key \in {None, ""} => (ckpt' = ckpt /\ ckpt_exists' = ckpt_exists)]_vars

\* C20 witness: a call with an empty credential has raised over an existing
\* checkpoint file
C20_Witness ==
    /\ fargs.api_key = ""
    /\ fargs.checkpoint_path
    /\ fpc = "raised"
    /\ ckpt = OldFile

\* The call has read its checkpoint file
ReadCheckpoint == \E k \in 1..Len(trace) : trace[k] = "read_checkpoint"

\* C15: loading a checkpoint yields the records of its well-formed lines in
\* file order, records appended to a file are loaded back unchanged after the
\* records already there, and a corrupted line is skipped: reading the file
\* never makes the call raise.
C15_LoadSkipsCorruptedLines ==
    /\ (ReadCheckpoint /\ fpc # "raised") =>
            SubSeq(collected, 1, loaded) = LoadCheckpoint(ckpt_at_start)
    /\ LoadCheckpoint(ckpt \o DumpAll(collected)) = LoadCheckpoint(ckpt) \o collected
    /\ (ReadCheckpoint /\ fpc = "raised") =>
            returned[Len(returned)].how # "UnicodeDecodeError"

\* C16 (API engine): at every point of a call each reply in the result list
\* has, somewhere before it in the list, the top-level record whose comment_id
\* is the reply's parent_id.
C16_ParentPrecedesReply ==
    \A k \in 1..Len(collected) :
        collected[k].parent_id # 0 =>
            \E j \in 1..(k - 1) :
                /\ collected[j].parent_id = 0
                /\ collected[j].comment_id = collected[k].parent_id


(***************************************************************************)
(* Backoff executor: properties                                            *)
(***************************************************************************)
\* Failed invocations of the operation so far
Failures == {j \in 1..Len(invoked) : invoked[j] # Value}

\* C12: when the operation fails k times and then succeeds, the call returns
\* the operation's value after exactly k + 1 invocations, k is below
\* max_retries, and it has waited k times, min(60, initial_delay * 2^i) after
\* failure i = 0..k-1, so the total wait is the sum of these.
C12_ReturnsAfterTransientFailures ==
    /\ [](spc = "returned" =>
            LET k == Len(invoked) - 1
                d == sargs.initial_delay
                capped(w) == IF w > Ceiling THEN Ceiling ELSE w
            IN /\ k >= 0 /\ k < sargs.max_retries
               /\ Failures = 1..k
               /\ invoked[k + 1] = Value
               /\ sresult = "response"
               /\ Len(sleeps) = k
               /\ \A n \in 1..k : sleeps[n] = capped(d * 2^(n - 1))
               /\ SumSeq(sleeps) = SumSeq([n \in 1..k |-> capped(d * 2^(n - 1))]))
    /\ [][invoked' = Append(invoked, Value) => spc' = "returned"]_vars

\* C12 witness: a call with initial_delay 8 returned after four failures, its
\* waits 8 + 16 + 32 + 60
C12_Witness ==
    /\ spc = "returned"
    /\ sargs.initial_delay = 8
    /\ Len(invoked) = 5
    /\ SumSeq(sleeps) = 116

\* A failure the specification calls non-retryable: an HTTP error that is no
\* rate limit and no 5xx, or an exception that is no transport error
NonRetryableFailure(o) ==
    \/ o.kind = "http" /\ o.status \notin {429, 503}
    \/ o.kind = "other" /\ o.exc # "ConnectionError"

\* C13 as stated: every non-retryable failure (400, 401, 403, an error that is
\* neither rate limit, 5xx nor transport error) ends the call on the attempt
\* where it occurs: it is the last invocation, the call has raised, and no wait
\* followed it.
C13_NonRetryablePropagates ==
    \A k \in 1..Len(invoked) :
        NonRetryableFailure(invoked[k]) =>
            /\ k = Len(invoked)
            /\ spc = "raised"
            /\ Len(sleeps) = k - 1

\* C13 amended: an HttpError whose status is not 403, 429 or 5xx (400, 401, no
\* status) is raised again on the attempt where it occurs, with no wait and no
\* further attempt; a 403 and every exception that is no HttpError are followed
\* by a wait like a rate limit or a 5xx.
C13_UnretriedStatusPropagates ==
    \A k \in 1..Len(invoked) :
        /\ (invoked[k].kind = "http" /\ invoked[k].status \in {0, 400, 401}) =>
            /\ k = Len(invoked)
            /\ spc = "raised"
            /\ sresult = "HttpError"
            /\ Len(sleeps) = k - 1
        /\ (invoked[k].kind = "other" \/ invoked[k] = HttpError(403)) =>
            /\ Len(sleeps) >= k
            /\ sresult # "HttpError" \/ k < Len(invoked)

\* C13 witness: a 403 and a TypeError were retried, then a 401 ended the call
C13_Witness ==
    /\ spc = "raised"
    /\ invoked = <<HttpError(403), OtherError("TypeError"), HttpError(401)>>
    /\ Len(sleeps) = 2

\* C14: the operation is never invoked more than max_retries times; when every
\* attempt failed and was retried the call raises the max-retries error after
\* exactly max_retries invocations (6 by default); a call that returns has had
\* a successful attempt.
C14_MaxRetriesExceeded ==
    /\ [](/\ Len(invoked) <= sargs.max_retries
          /\ (spc = "raised" /\ sresult = MaxRetriesExceeded) =>
                /\ Len(invoked) = sargs.max_retries
                /\ Failures = 1..Len(invoked)
          /\ (spc = "returned") => Failures # 1..Len(invoked))
    /\ [][(spc = "loop" /\ Len(invoked) = sargs.max_retries) =>
            /\ spc' = "raised"
            /\ sresult' = MaxRetriesExceeded
            /\ invoked' = invoked]_vars

\* C14 witness: a call with the default max_retries raised the max-retries
\* error after six failed invocations
C14_Witness ==
    /\ spc = "raised"
    /\ sresult = MaxRetriesExceeded
    /\ sargs.max_retries = DefaultMaxRetries
    /\ Len(invoked) = 6
    /\ Failures = 1..6


(***************************************************************************)
(* DOM collection engine: extract_comments_detailed and                    *)
(* scrape_video_with_selenium                                              *)
(***************************************************************************)
MaxDomThreads == 2
MaxHeight == 4
StagnationLimit == 3

Detailed == "extract_comments_detailed"
Scroller == "scrape_video_with_selenium"
DomCaps == {0, 1, 2, 500}

\* A rendered comment element: its author, the first 120 characters of its
\* text and the rest of the text; a part that cannot be extracted reads ''
Elem(a, h, t) == [author |-> a, head |-> h, tail |-> t]
Ann == Elem("ann", "hi", "")
AnnLong == Elem("ann", "hi", "+more")
Bob == Elem("bob", "yo", "")
Cat == Elem("cat", "re", "")
Blank == Elem("", "", "")

\* A thread renderer: whether a top-level comment element is found in it
\* (line 111), that element, and the reply elements found after expansion
Thread(found, top, replies) == [has_top |-> found, top |-> top, replies |-> replies]
DomThreads ==
    {Thread(TRUE, Ann, <<>>), Thread(TRUE, Bob, <<Cat, Blank>>),
     Thread(FALSE, Blank, <<Cat>>), Thread(TRUE, AnnLong, <<Bob>>)}
DomSources == SeqsUpTo(DomThreads, 0, MaxDomThreads)

\* Variant of lines 149 and 207 that takes the whole text
Fingerprint_FullText(e) == <<e.author, e.head, e.tail>>

\* lines 149 and 207: (author, text[:120])
Fingerprint(e) == <<e.author, e.head>>

TextOf(e) == [head |-> e.head, tail |-> e.tail]
NoParent == [head |-> "None", tail |-> ""]

\* lines 154-161
TopRecord(e) ==
    [text |-> TextOf(e), author |-> e.author, is_reply |-> FALSE, parent |-> NoParent]

\* lines 212-219
ReplyRecord(r, top) ==
    [text |-> TextOf(r), author |-> r.author, is_reply |-> TRUE, parent |-> TextOf(top)]

\* lines 184-219: the reply elements of one thread, in order
RECURSIVE EmitReplies(_, _, _, _)
EmitReplies(rs, top, cs, sn) ==
    IF rs = <<>>
    THEN [comments |-> cs, seen |-> sn, skipped |-> FALSE]
    ELSE IF Fingerprint(Head(rs)) \in sn
         THEN EmitReplies(Tail(rs), top, cs, sn)
         ELSE EmitReplies(Tail(rs), top, Append(cs, ReplyRecord(Head(rs), top)),
                          sn \cup {Fingerprint(Head(rs))})

\* Variant of lines 108-115 that takes a thread without top-level element as
\* an element whose fields are empty
ThreadScan_NoTopAsBlank(th, cs, sn, expand_replies) ==
    IF th.has_top /\ Fingerprint(th.top) \in sn
    THEN [comments |-> cs, seen |-> sn, skipped |-> TRUE]
    ELSE LET top == IF th.has_top THEN th.top ELSE Blank
         IN IF expand_replies
            THEN EmitReplies(th.replies, top, Append(cs, TopRecord(top)),
                             sn \cup {Fingerprint(top)})
            ELSE [comments |-> Append(cs, TopRecord(top)),
                  seen |-> sn \cup {Fingerprint(top)}, skipped |-> FALSE]

\* lines 108-225: one thread of the scan; `skipped` when a `continue` of line
\* 115 or 151 ended the iteration
ThreadScan(th, cs, sn, expand_replies) ==
    IF ~th.has_top \/ Fingerprint(th.top) \in sn
    THEN [comments |-> cs, seen |-> sn, skipped |-> TRUE]
    ELSE IF expand_replies
         THEN EmitReplies(th.replies, th.top, Append(cs, TopRecord(th.top)),
                          sn \cup {Fingerprint(th.top)})
         ELSE [comments |-> Append(cs, TopRecord(th.top)),
               seen |-> sn \cup {Fingerprint(th.top)}, skipped |-> FALSE]

\* Variant of lines 235-241 that does not reset the counter
Observe_KeepsCount(last, stag, new) ==
    IF new = last
    THEN [last_height |-> last, stagnation |-> stag + 1]
    ELSE [last_height |-> new, stagnation |-> stag]

\* lines 235-241: one observation of the page height
Observe(last, stag, new) ==
    IF new = last
    THEN [last_height |-> last, stagnation |-> stag + 1]
    ELSE [last_height |-> new, stagnation |-> 0]

\* youtube_comment_scraper.py lines 122-128
ScrollerObserve(previous, same, current) ==
    [last_height |-> current, stagnation |-> IF current = previous THEN same + 1 ELSE 0]

\* Variant of line 237 that takes two unchanged observations as the signal
Stagnant_AtTwo(stag) == stag >= StagnationLimit - 1

\* line 237 (youtube_comment_scraper.py line 124): `if stagnation >= 3`
Stagnant(stag) == stag >= StagnationLimit

\* selenium_scraper.py lines 26 and 31, youtube_comment_scraper.py lines 82 and 90
DetailedSslMissing == "SSL support missing in Python environment; Selenium needs ssl."
DetailedSeleniumMissing == "Selenium not installed. Install with: pip install selenium"

\* Variant of _ensure_selenium that does not try to import ssl
EnvironmentError_NoSslCheck(fn, ssl, selenium) ==
    IF ~selenium
    THEN IF fn = Detailed THEN DetailedSeleniumMissing ELSE SeleniumMissing
    ELSE None

\* _ensure_selenium (lines 22-31) and youtube_comment_scraper.py lines 78-90:
\* the RuntimeError raised for the environment, None if both imports succeed
EnvironmentError(fn, ssl, selenium) ==
    IF ~ssl
    THEN IF fn = Detailed THEN DetailedSslMissing ELSE SslMissing
    ELSE IF ~selenium
         THEN IF fn = Detailed THEN DetailedSeleniumMissing ELSE SeleniumMissing
         ELSE None

\* Variant of the finally block that leaves the browser running
Release_Leak(d) == d

\* lines 245-250: `if driver: driver.quit()`
Release(d) == IF d = "open" THEN "quit" ELSE d

\* The event the finally block adds to the history
Released(d) == IF Release(d) # d THEN <<"quit">> ELSE <<>>

\* What a scroll to the bottom can do to the page: nothing, render the next
\* thread, or (all threads rendered) let other content grow the page
PageAfterScroll ==
    {[rendered |-> rendered, height |-> height]} \cup
    (IF rendered < Len(dsource)
     THEN {[rendered |-> rendered + 1, height |-> height + 1]}
     ELSE IF height < MaxHeight
          THEN {[rendered |-> rendered, height |-> height + 1]}
          ELSE {})

InitDom ==
    /\ dargs \in [fn : {Detailed}, max_comments : DomCaps, expand_replies : BOOLEAN,
                  ssl : BOOLEAN, selenium : BOOLEAN]
              \cup [fn : {Scroller}, max_comments : {0}, expand_replies : {FALSE},
                    ssl : BOOLEAN, selenium : BOOLEAN]
    /\ dsource \in DomSources
    /\ rendered = 0
    /\ height = 1
    /\ dpc = "start"
    /\ driver = "none"
    /\ dcomments = <<>>
    /\ seen = {}
    /\ last_height = 0
    /\ stagnation = 0
    /\ tidx = 0
    /\ dresult = None
    /\ dtrace = <<>>
    /\ observed = <<>>
    /\ BatchIdle
    /\ FetchIdle
    /\ SafeIdle

\* selenium_scraper.py line 55, youtube_comment_scraper.py lines 78-90: an
\* import fails
EnvMissing ==
    /\ dpc = "start"
    /\ EnvironmentError(dargs.fn, dargs.ssl, dargs.selenium) # None
    /\ dpc' = "raised"
    /\ dresult' = EnvironmentError(dargs.fn, dargs.ssl, dargs.selenium)
    /\ UNCHANGED <<dargs, dsource, rendered, height, driver, dcomments, seen,
                   last_height, stagnation, tidx, dtrace,
                   observed>>
    /\ UNCHANGED <<bvars, fvars, svars>>

\* lines 69-80: webdriver.Chrome raises; `driver` is still None in the finally
\* block
DriverFails ==
    /\ dpc = "start"
    /\ EnvironmentError(dargs.fn, dargs.ssl, dargs.selenium) = None
    /\ dpc' = "raised"
    /\ dresult' = DriverError
    /\ driver' = Release(driver)
    /\ dtrace' = dtrace \o Released(driver)
    /\ UNCHANGED <<dargs, dsource, rendered, height, dcomments, seen,
                   last_height, stagnation, tidx,
                   observed>>
    /\ UNCHANGED <<bvars, fvars, svars>>

\* lines 69-80: the browser session is created
OpenDriver ==
    /\ dpc = "start"
    /\ EnvironmentError(dargs.fn, dargs.ssl, dargs.selenium) = None
    /\ driver' = "open"
    /\ dtrace' = Append(dtrace, "create_session")
    /\ dpc' = "load"
    /\ UNCHANGED <<dargs, dsource, rendered, height, dcomments, seen,
                   last_height, stagnation, tidx, dresult,
                   observed>>
    /\ UNCHANGED <<bvars, fvars, svars>>

\* selenium_scraper.py lines 82-98, youtube_comment_scraper.py lines 111-117:
\* the page is loaded and the loop variables are set
LoadPage ==
    /\ dpc = "load"
    /\ dtrace' = Append(dtrace, "get")
    /\ rendered' \in 0..Min(1, Len(dsource))
    /\ height' = 1 + rendered'
    /\ dcomments' = <<>>
    /\ seen' = {}
    /\ stagnation' = 0
    /\ IF dargs.fn = Detailed
       THEN last_height' = height' /\ dpc' = "while" /\ observed' = <<height'>>
       ELSE last_height' = 0 /\ dpc' = "scroll" /\ observed' = <<>>
    /\ UNCHANGED <<dargs, dsource, driver, tidx, dresult>>
    /\ UNCHANGED <<bvars, fvars, svars>>

\* lines 100-105: the loop condition holds, the thread renderers are looked up
EnterScan ==
    /\ dpc = "while"
    /\ Len(dcomments) < dargs.max_comments
    /\ dtrace' = Append(dtrace, "scan")
    /\ tidx' = 1
    /\ dpc' = "scan"
    /\ UNCHANGED <<dargs, dsource, rendered, height, driver, dcomments, seen,
                   last_height, stagnation, dresult,
                   observed>>
    /\ UNCHANGED <<bvars, fvars, svars>>

\* lines 100 and 243-250: the loop condition fails; return through finally
ReturnAtCap ==
    /\ dpc = "while"
    /\ ~(Len(dcomments) < dargs.max_comments)
    /\ dpc' = "returned"
    /\ dresult' = "returned"
    /\ driver' = Release(driver)
    /\ dtrace' = dtrace \o Released(driver)
    /\ UNCHANGED <<dargs, dsource, rendered, height, dcomments, seen,
                   last_height, stagnation, tidx,
                   observed>>
    /\ UNCHANGED <<bvars, fvars, svars>>

\* lines 107-229: one thread of the scan, with the cap test of line 228
ScanThread ==
    /\ dpc = "scan"
    /\ tidx <= rendered
    /\ LET out == ThreadScan(dsource[tidx], dcomments, seen, dargs.expand_replies)
       IN /\ dcomments' = out.comments
          /\ seen' = out.seen
          /\ IF ~out.skipped /\ Len(out.comments) >= dargs.max_comments
             THEN dpc' = "scroll" /\ tidx' = tidx
             ELSE dpc' = "scan" /\ tidx' = tidx + 1
    /\ UNCHANGED <<dargs, dsource, rendered, height, driver, last_height,
                   stagnation, dresult, dtrace,
                   observed>>
    /\ UNCHANGED <<bvars, fvars, svars>>

\* line 107: the for loop is over
EndScan ==
    /\ dpc = "scan"
    /\ tidx > rendered
    /\ dpc' = "scroll"
    /\ UNCHANGED <<dargs, dsource, rendered, height, driver, dcomments, seen,
                   last_height, stagnation, tidx, dresult, dtrace,
                   observed>>
    /\ UNCHANGED <<bvars, fvars, svars>>

\* lines 231-241: scroll to the bottom and observe the height; at the third
\* unchanged observation in a row break and return through finally
Scroll ==
    /\ dpc = "scroll"
    /\ dargs.fn = Detailed
    /\ \E pg \in PageAfterScroll :
        LET obs == Observe(last_height, stagnation, pg.height)
        IN /\ rendered' = pg.rendered
           /\ height' = pg.height
           /\ last_height' = obs.last_height
           /\ stagnation' = obs.stagnation
           /\ observed' = Append(observed, pg.height)
           /\ IF pg.height = last_height /\ Stagnant(obs.stagnation)
              THEN /\ dpc' = "returned"
                   /\ dresult' = "returned"
                   /\ driver' = Release(driver)
                   /\ dtrace' = Append(dtrace, "scroll") \o Released(driver)
              ELSE /\ dpc' = "while"
                   /\ dtrace' = Append(dtrace, "scroll")
                   /\ UNCHANGED <<dresult, driver>>
    /\ UNCHANGED <<dargs, dsource, dcomments, seen, tidx>>
    /\ UNCHANGED <<bvars, fvars, svars>>

\* youtube_comment_scraper.py lines 118-128: press END and observe the height
ScrollerScroll ==
    /\ dpc = "scroll"
    /\ dargs.fn = Scroller
    /\ \E pg \in PageAfterScroll :
        LET obs == ScrollerObserve(last_height, stagnation, pg.height)
        IN /\ rendered' = pg.rendered
           /\ height' = pg.height
           /\ last_height' = obs.last_height
           /\ stagnation' = obs.stagnation
           /\ observed' = Append(observed, pg.height)
           /\ dpc' = IF pg.height = last_height /\ Stagnant(obs.stagnation)
                     THEN "collect" ELSE "scroll"
    /\ dtrace' = Append(dtrace, "scroll")
    /\ UNCHANGED <<dargs, dsource, driver, dcomments, seen, tidx, dresult>>
    /\ UNCHANGED <<bvars, fvars, svars>>

\* youtube_comment_scraper.py lines 130-138: the texts of the rendered
\* comments are returned through finally
ScrollerCollect ==
    /\ dpc = "collect"
    /\ dcomments' = LET tops == SelectSeq(SubSeq(dsource, 1, rendered),
                                          LAMBDA th : th.has_top)
                    IN [k \in 1..Len(tops) |-> TextOf(tops[k].top)]
    /\ dpc' = "returned"
    /\ dresult' = "returned"
    /\ driver' = Release(driver)
    /\ dtrace' = dtrace \o Released(driver)
    /\ UNCHANGED <<dargs, dsource, rendered, height, seen, last_height,
                   stagnation, tidx,
                   observed>>
    /\ UNCHANGED <<bvars, fvars, svars>>

\* A call on the driver raises WebDriverException outside every try/except of
\* the loop body: driver.get (line 82), find_elements (line 102),
\* execute_script (lines 232-234); youtube_comment_scraper.py lines 111, 119,
\* 121 and 130. The exception leaves through finally
PageFails ==
    /\ \/ dpc \in {"load", "scroll", "collect"}
       \/ dpc = "while" /\ Len(dcomments) < dargs.max_comments
    /\ dpc' = "raised"
    /\ dresult' = DriverError
    /\ driver' = Release(driver)
    /\ dtrace' = dtrace \o Released(driver)
    /\ UNCHANGED <<dargs, dsource, rendered, height, dcomments, seen,
                   last_height, stagnation, tidx,
                   observed>>
    /\ UNCHANGED <<bvars, fvars, svars>>

NextDom ==
    \/ EnvMissing
    \/ DriverFails
    \/ OpenDriver
    \/ LoadPage
    \/ EnterScan
    \/ ReturnAtCap
    \/ ScanThread
    \/ EndScan
    \/ Scroll
    \/ ScrollerScroll
    \/ ScrollerCollect
    \/ PageFails

SpecDom == InitDom /\ [][NextDom]_vars

\* The function runs on: a step that is possible is eventually taken
SpecDomFair == SpecDom /\ WF_vars(NextDom)


(***************************************************************************)
(* DOM collection engine: properties                                       *)
(***************************************************************************)
Finished == dpc \in {"returned", "raised"}

\* C17: the list extract_comments_detailed returns holds at most max_comments
\* records, whatever max_comments, expand_replies and the replies of the
\* threads are.
C17_ResultWithinCap ==
    (dargs.fn = Detailed /\ dpc = "returned") => Len(dcomments) <= dargs.max_comments

\* C18: when ssl or selenium cannot be imported, extract_comments_detailed
\* raises the RuntimeError naming the missing module, and it does so before a
\* browser session is created, a page is loaded or scanned or a scroll is made;
\* no record is collected.
C18_EnvironmentErrorFirst ==
    (dargs.fn = Detailed /\ (~dargs.ssl \/ ~dargs.selenium)) =>
        /\ dpc \in {"start", "raised"}
        /\ driver = "none"
        /\ dtrace = <<>>
        /\ dcomments = <<>>
        /\ dpc = "raised" =>
            dresult = IF ~dargs.ssl THEN DetailedSslMissing ELSE DetailedSeleniumMissing

\* C18 witness: the call raised the ssl error although selenium is installed
C18_Witness ==
    /\ dargs.fn = Detailed
    /\ ~dargs.ssl /\ dargs.selenium
    /\ dpc = "raised"
    /\ dresult = DetailedSslMissing
    /\ dsource # <<>>

\* C19: an invocation of either function creates at most one browser session,
\* and when it has finished after creating one (return at the cap or on
\* stagnation, or an exception from page load, scan or scroll) the session has
\* been released, as the last thing the invocation did; a session is open only
\* while the invocation runs.
C19_SessionReleased ==
    /\ Occurrences(dtrace, "create_session") <= 1
    /\ Occurrences(dtrace, "quit") <= Occurrences(dtrace, "create_session")
    /\ driver = "open" => ~Finished /\ dpc # "start"
    /\ (Finished /\ Occurrences(dtrace, "create_session") = 1) =>
        /\ driver = "quit"
        /\ dtrace[Len(dtrace)] = "quit"
        /\ Occurrences(dtrace, "quit") = 1

\* C19 witness: extract_comments_detailed raised from a scroll or scan after a
\* first scan that collected records, and the session is released
C19_Witness ==
    /\ dargs.fn = Detailed
    /\ dpc = "raised"
    /\ dresult = DriverError
    /\ Len(dcomments) >= 1
    /\ driver = "quit"
    /\ dtrace[Len(dtrace)] = "quit"


(***************************************************************************)
(* Backoff executor: further properties                                    *)
(***************************************************************************)
\* C21: the wait after failed attempt n (counted from 0) is
\* min(60, initial_delay * 2^n): each wait is twice the one before unless that
\* exceeds 60, so the waits never decrease and none exceeds 60; a step that
\* waits is the step of a failed attempt and waits the time of that attempt.
C21_WaitIsCappedExponential ==
    /\ [](\A n \in 1..Len(sleeps) :
            /\ sleeps[n] = IF sargs.initial_delay * 2^(n - 1) < 60
                           THEN sargs.initial_delay * 2^(n - 1) ELSE 60
            /\ sleeps[n] <= 60
            /\ n > 1 => /\ sleeps[n] >= sleeps[n - 1]
                        /\ sleeps[n] = IF 2 * sleeps[n - 1] < 60
                                       THEN 2 * sleeps[n - 1] ELSE 60)
    /\ [][sleeps' # sleeps =>
            /\ Len(sleeps') = Len(sleeps) + 1
            /\ Len(sleeps) = attempt
            /\ Len(invoked') = Len(invoked) + 1
            /\ invoked'[Len(invoked')] # Value]_vars

\* C21 witness: six failed attempts of a call with initial_delay 8
C21_Witness ==
    /\ sargs.initial_delay = 8
    /\ sleeps = <<8, 16, 32, 60, 60, 60>>

\* C28: a wait is always followed by a further invocation of the operation:
\* when the call has ended there are fewer waits than invocations, and when it
\* ended with the max-retries error after at least one attempt the number of
\* waits is one less than the number of attempts.
C28_WaitsOnlyBetweenAttempts ==
    /\ (spc \in {"returned", "raised"} /\ invoked # <<>>) => Len(sleeps) < Len(invoked)
    /\ (spc = "raised" /\ sresult = MaxRetriesExceeded /\ invoked # <<>>) =>
            Len(sleeps) = Len(invoked) - 1


AppendedLines == SubSeq(ckpt, Len(ckpt_at_start) + 1, Len(ckpt))

\* C27: the lines one call appends to the checkpoint file are pairwise
\* different, and none of them is a record the call loaded from the file at
\* its start.
C27_NoDuplicateLines ==
    (fargs.checkpoint_path /\ (Running \/ fpc = "returned")) =>
        /\ \A a, b \in 1..Len(AppendedLines) :
                a # b => AppendedLines[a] # AppendedLines[b]
        /\ \A a \in 1..Len(AppendedLines) :
                \A k \in 1..loaded : AppendedLines[a] # Dumps(collected[k])


(***************************************************************************)
(* Orchestrator: further properties                                        *)
(***************************************************************************)
\* The engine invocations for target k that raised
RaisedCallsOf(k) == SelectSeq(CallsOf(k), LAMBDA c : c.raised)

\* C29 as stated: for a completed target whose last engine gave no comments
\* the single row is an error row exactly if that last engine raised, with
\* that engine's error; if the last engine returned an empty list the row is
\* the no-comments placeholder.
C29_ErrorRowIffLastEngineRaised ==
    \A k \in Completed :
        LastCall(k).comments = <<>> =>
            TargetRows(k) = IF LastCall(k).raised
                            THEN << <<urls[k], ErrorText(LastCall(k).err)>> >>
                            ELSE << <<urls[k], NoComments>> >>

\* C29 amended: for a completed target that ends with no comments the single
\* row is an error row exactly if some engine run for the target raised, and
\* its text is the error of the engine that raised last; only when no engine
\* raised is it the no-comments placeholder.
C29_ErrorRowIffSomeEngineRaised ==
    \A k \in Completed :
        LastCall(k).comments = <<>> =>
            /\ Len(TargetRows(k)) = 1
            /\ IsErrorRow(TargetRows(k)[1]) <=> RaisedCallsOf(k) # <<>>
            /\ TargetRows(k)[1] =
                    IF RaisedCallsOf(k) # <<>>
                    THEN <<urls[k], ErrorText(RaisedCallsOf(k)[Len(RaisedCallsOf(k))].err)>>
                    ELSE <<urls[k], NoComments>>

\* C29 witness: mode 'both', the API raised for the missing key, the DOM
\* engine returned an empty list, and the row carries the API's error
C29_Witness ==
    \E k \in Completed :
        /\ engine = "both"
        /\ Len(CallsOf(k)) = 2
        /\ CallsOf(k)[1].raised /\ CallsOf(k)[1].err = KeyRequired
        /\ ~CallsOf(k)[2].raised /\ CallsOf(k)[2].comments = <<>>
        /\ TargetRows(k) = << <<urls[k], ErrorText(KeyRequired)>> >>


(***************************************************************************)
(* DOM collection engine: further properties                               *)
(***************************************************************************)
\* How many of the latest observations, counted back from the last one, equal
\* the observation before them
RECURSIVE UnchangedRun(_)
UnchangedRun(obs) ==
    IF Len(obs) < 2 THEN 0
    ELSE IF obs[Len(obs)] = obs[Len(obs) - 1]
         THEN 1 + UnchangedRun(SubSeq(obs, 1, Len(obs) - 1))
         ELSE 0

StrictlyIncreasing(obs) == \A k \in 1..(Len(obs) - 1) : obs[k] < obs[k + 1]

\* C23: in extract_comments_detailed every observed height is compared with
\* the previous observation: unchanged, the counter grows by one; changed, the
\* counter is 0 and the new height is recorded. So the counter is the number of
\* latest observations that repeat their predecessor: 3 after the same height
\* was fed three times in a row, 0 after every observation of a strictly
\* increasing sequence.
C23_StagnationCounting ==
    /\ []((dargs.fn = Detailed /\ observed # <<>>) =>
            /\ last_height = observed[Len(observed)]
            /\ stagnation = UnchangedRun(observed)
            /\ (Len(observed) >= 4 /\
                \A k \in (Len(observed) - 2)..Len(observed) : observed[k] = observed[k - 1])
                    => stagnation = 3
            /\ StrictlyIncreasing(observed) => stagnation = 0)
    /\ [][(dargs.fn = Detailed /\ observed # <<>> /\ observed' # observed) =>
            /\ Len(observed') = Len(observed) + 1
            /\ IF observed'[Len(observed')] = last_height
               THEN stagnation' = stagnation + 1 /\ last_height' = last_height
               ELSE stagnation' = 0 /\ last_height' = observed'[Len(observed')]]_vars

\* C23 witness: the height grew once and was then observed unchanged three
\* times
C23_Witness ==
    /\ dargs.fn = Detailed
    /\ observed = <<1, 2, 2, 2, 2>>
    /\ stagnation = 3

\* C24: a counter of 3 ends the scroll loop of both functions: the counter
\* never exceeds 3 and is below 3 while the loop runs, the step that brings it
\* to 3 leaves the loop, a scroll step leaves the loop only with the counter at
\* 3 after three observations in a row that repeat their predecessor, and once
\* the page is loaded the function eventually finishes.
C24_StagnationEndsLoop ==
    /\ [](/\ stagnation <= 3
          /\ dpc \in {"while", "scan", "scroll"} => stagnation < 3)
    /\ [][(stagnation' = 3 /\ stagnation # 3) =>
            dpc' = IF dargs.fn = Detailed THEN "returned" ELSE "collect"]_vars
    /\ [][(dpc = "scroll" /\ dpc' \in {"returned", "collect"}) =>
            /\ stagnation' = 3
            /\ Len(observed') >= 4
            /\ \A k \in (Len(observed') - 2)..Len(observed') :
                    observed'[k] = observed'[k - 1]]_vars
    /\ (dpc = "load") ~> Finished

\* C24 witness: scrape_video_with_selenium has left its scroll loop after the
\* height 2 was observed four times
C24_Witness ==
    /\ dargs.fn = Scroller
    /\ dpc = "collect"
    /\ stagnation = 3
    /\ observed = <<2, 2, 2, 2>>

\* The fingerprint of an emitted record: its author and the first 120
\* characters of its text
RecordFingerprint(rec) == <<rec.author, rec.text.head>>

\* C25: in a run of extract_comments_detailed no two emitted records have the
\* same (author, first 120 characters of text); the seen set is at every point
\* the set of the fingerprints of the emitted records; a step never removes a
\* fingerprint from it nor a record from the result.
C25_NoDuplicateFingerprints ==
    /\ [](dargs.fn = Detailed =>
            /\ \A a, b \in 1..Len(dcomments) :
                    a # b => RecordFingerprint(dcomments[a]) # RecordFingerprint(dcomments[b])
            /\ seen = {RecordFingerprint(dcomments[k]) : k \in 1..Len(dcomments)})
    /\ [][dargs.fn = Detailed => (seen \subseteq seen' /\ IsPrefix(dcomments, dcomments'))]_vars

\* C25 witness: both threads of ann, whose texts differ only after the first
\* 120 characters, were rendered and scanned twice, and one record was emitted
C25_Witness ==
    /\ dargs.fn = Detailed
    /\ dsource = <<Thread(TRUE, Ann, <<>>), Thread(TRUE, AnnLong, <<Bob>>)>>
    /\ rendered = 2
    /\ Occurrences(dtrace, "scan") = 2
    /\ dpc = "scroll"
    /\ dcomments = <<TopRecord(Ann)>>

\* C26 as stated: an element whose extraction fails contributes no record (no
\* record has the empty author and text of an element that could not be read),
\* and a scan is never ended by an error.
C26_FailingElementSkipped ==
    /\ \A k \in 1..Len(dcomments) :
            ~(dcomments[k].author = Blank.author /\ dcomments[k].text = TextOf(Blank))
    /\ dpc = "scan" => dresult = None

\* C26 amended: a step of the scan never ends the run and keeps the records
\* emitted so far; a thread without top-level element adds nothing and the
\* scan goes on with the next thread; for a thread whose top-level element is
\* new, that element is emitted and, with expand_replies, so is every reply
\* element, an element whose fields cannot be read as a record with empty
\* fields.
C26_FailureIsNotFatal ==
    [][(dpc = "scan" /\ tidx <= rendered) =>
        /\ dpc' \in {"scan", "scroll"}
        /\ dresult' = dresult
        /\ IsPrefix(dcomments, dcomments')
        /\ ~dsource[tidx].has_top =>
            /\ dcomments' = dcomments
            /\ dpc' = "scan"
            /\ tidx' = tidx + 1
        /\ (dsource[tidx].has_top /\ Fingerprint(dsource[tidx].top) \notin seen) =>
            /\ dcomments'[Len(dcomments) + 1] = TopRecord(dsource[tidx].top)
            /\ dargs.expand_replies =>
                \A n \in 1..Len(dsource[tidx].replies) :
                    \E k \in 1..Len(dcomments') :
                        /\ dcomments'[k].author = dsource[tidx].replies[n].author
                        /\ dcomments'[k].text.head = dsource[tidx].replies[n].head]_vars

\* C26 witness: the first thread has no top-level element and was skipped, the
\* second was emitted with both replies, the last one with empty fields
C26_Witness ==
    /\ dargs.fn = Detailed
    /\ rendered = 2
    /\ ~dsource[1].has_top
    /\ dcomments = <<TopRecord(Bob), ReplyRecord(Cat, Bob), ReplyRecord(Blank, Bob)>>

====
